---- MODULE Spec2Model ----
(***************************************************************************)
(* claudpit: session discovery and status inference.                       *)
(*                                                                         *)
(* The model follows hooks/useSessions.ts (the revision with the full and  *)
(* quick scan, src/unnamed/part_002) and utils/sessionStatus.ts (the       *)
(* revision with the tail reader and the recency overrides,                *)
(* src/unnamed/part_004).                                                  *)
(*                                                                         *)
(* Conventions.  Times are integers in milliseconds.  File names,          *)
(* directory names, paths and session ids are sequences of one-character   *)
(* strings, so that the string operations of the code (endsWith, replace,  *)
(* replaceAll, split) are computed, not assumed.  A value that may be      *)
(* undefined is a sequence of length 0 (undefined) or 1 (the value).       *)
(***************************************************************************)
EXTENDS Integers, Sequences, FiniteSets, TLC

VARIABLES
    now,              \* Date.now()
    rootOK,           \* readdirSync(CLAUDE_DIR) succeeds
    dirs,             \* entries of CLAUDE_DIR: name -> "absent" | "dir" | "unreadable"
    fs,               \* session logs: <<dir, file>> -> NoFile or a file record
    subagents,        \* <<dir, file>> -> listing of the session's subagents directory
    indexFile,        \* dir -> sessions-index.json of that directory
    procs,            \* the OS process table (assistant processes)
    manifests,        \* project path -> what the manifest readers would extract
    gitHead,          \* project path -> result of git rev-parse --abbrev-ref HEAD
    watchable,        \* directories on which fs.watch succeeds
    lastFullScanMs,
    cachedActiveIds,
    dirty,
    cachedSessions,
    projectNameCache,
    gitBranchCache,
    indexCache,
    metadataCache,
    dirWatchers,      \* the registry: set of watched directory paths
    openWatches,      \* OS watch handles not yet closed: path -> count
    sessions,         \* the React state: the list last emitted to the renderer
    phase,            \* "start" | "rendered" | "mounted" | "unmounted"
    lastTick,         \* time of the last timer callback (or of setInterval)
    lastScan,         \* what the last fetchSessions() call did and returned
    calls,            \* results of determineStatus calls made by the classifier harness
    envSteps          \* number of environment changes so far

vars ==
    << now, rootOK, dirs, fs, subagents, indexFile, procs, manifests, gitHead,
       watchable, lastFullScanMs, cachedActiveIds, dirty, cachedSessions,
       projectNameCache, gitBranchCache, indexCache, metadataCache, dirWatchers,
       openWatches, sessions, phase, lastTick, lastScan, calls, envSteps >>

----------------------------------------------------------------------------
(* Optional values and strings                                             *)

None == << >>

Some(x) == << x >>

IsSome(o) == Len(o) = 1

\* a ?? b
Coalesce(a, b) == IF IsSome(a) THEN a ELSE b

\* F applied to the value of v, which is computed once
With(v, F(_)) == CHOOSE r \in { F(a) : a \in { v } } : TRUE

\* A JSON value that is not a string (a number, an object): as a path it is
\* distinct from every sequence of characters
NotAString == << "number" >>

\* typeof v === 'string', for a value that stands where a path is expected
IsString(v) == v /= NotAString

\* JavaScript truthiness of an optional string: undefined and "" are falsy
Truthy(o) == IsSome(o) /\ o[1] /= ""

\* The same for an optional character sequence
TruthySeq(o) == IsSome(o) /\ Len(o[1]) > 0

Jsonl == << ".", "j", "s", "o", "n", "l" >>

\* String.prototype.endsWith
EndsWith(s, suf) ==
    /\ Len(s) >= Len(suf)
    /\ SubSeq(s, Len(s) - Len(suf) + 1, Len(s)) = suf

\* String.prototype.indexOf, 1-based; 0 when pat does not occur
IndexOf(s, pat) ==
    LET hits == { i \in 1..(Len(s) - Len(pat) + 1) : SubSeq(s, i, i + Len(pat) - 1) = pat }
    IN  IF hits = {} THEN 0 ELSE CHOOSE i \in hits : \A j \in hits : i <= j

\* String.prototype.replace with a string pattern: the first occurrence only
ReplaceFirst(s, pat, rep) ==
    LET i == IndexOf(s, pat)
    IN  IF i = 0 THEN s
        ELSE SubSeq(s, 1, i - 1) \o rep \o SubSeq(s, i + Len(pat), Len(s))

\* String.prototype.replaceAll for one-character pattern and replacement
ReplaceAllCh(s, ch, rep) == [ i \in 1..Len(s) |-> IF s[i] = ch THEN rep ELSE s[i] ]

\* s.split('/').pop()
LastSegment(s) ==
    LET slashes == { i \in 1..Len(s) : s[i] = "/" }
        last == IF slashes = {} THEN 0 ELSE CHOOSE i \in slashes : \A j \in slashes : j <= i
    IN  SubSeq(s, last + 1, Len(s))

----------------------------------------------------------------------------
(* Program constants                                                       *)

RENDER_INTERVAL == 200

FULL_SCAN_INTERVAL == 5000

STALE_THRESHOLD == 24 * 60 * 60 * 1000

TAIL_BYTES == 8192

RECENT_THRESHOLD == 3000

SUBAGENT_THRESHOLD == 60000

META_TYPES == { "file-history-snapshot", "system" }

STATUS_PRIORITY == [ running |-> 0, waiting |-> 1, idle |-> 2, inactive |-> 3 ]

\* The root directory is the empty relative path below CLAUDE_DIR
CLAUDE_DIR == << >>

----------------------------------------------------------------------------
(* Log records.  A line of a session log is                                *)
(*   ok      : JSON.parse succeeds                                         *)
(*   type    : parsed.type, "" when the record has none                    *)
(*   content : parsed.message.content when it is an array (the item types, *)
(*             "null" for a null item), undefined otherwise                *)
(*   gitBranch, cwd : the fields of that name                              *)
(*   bytes   : the length of the line without its newline                  *)

NoFile == [ exists |-> FALSE ]

Rec(type, content, bytes) ==
    [ ok |-> TRUE, type |-> type, content |-> content,
      gitBranch |-> None, cwd |-> None, bytes |-> bytes ]

UserRec(branch, cwd, bytes) ==
    [ ok |-> TRUE, type |-> "user", content |-> None,
      gitBranch |-> branch, cwd |-> cwd, bytes |-> bytes ]

BadLine(bytes) ==
    [ ok |-> FALSE, type |-> "", content |-> None,
      gitBranch |-> None, cwd |-> None, bytes |-> bytes ]

FileRec(mtime, birth, log) ==
    [ exists |-> TRUE, statOK |-> TRUE, readable |-> TRUE,
      mtime |-> mtime, birth |-> birth, log |-> log ]

----------------------------------------------------------------------------
(* utils/sessionStatus.ts: the status classifier                           *)

\* Offset of line i in the file; every line is followed by one newline
RECURSIVE LineOffset(_, _)
LineOffset(log, i) ==
    IF i <= 1 THEN 0 ELSE LineOffset(log, i - 1) + log[i - 1].bytes + 1

FileSize(log) == LineOffset(log, Len(log) + 1)

\* Index of the first line that survives the tail read: the whole file when it
\* fits in TAIL_BYTES; otherwise the read starts at readStart and everything up
\* to the first newline read is cut off, so the line that holds readStart goes,
\* even when readStart is exactly its first byte.
FirstTailLine(log) ==
    LET size == FileSize(log)
        readStart == IF size - TAIL_BYTES > 0 THEN size - TAIL_BYTES ELSE 0
    IN  IF readStart = 0 THEN 1
        ELSE 1 + CHOOSE k \in 1..Len(log) :
                     /\ LineOffset(log, k) <= readStart
                     /\ readStart <= LineOffset(log, k) + log[k].bytes

\* contentItems.some((c) => c.type === t): TRUE, FALSE, or "throws" when a null
\* item is reached before an item of type t
SomeOfType(items, t) ==
    LET hit == { i \in 1..Len(items) : items[i] = t }
        nul == { i \in 1..Len(items) : items[i] = "null" }
        firstHit == IF hit = {} THEN Len(items) + 1 ELSE CHOOSE i \in hit : \A j \in hit : i <= j
    IN  IF \E n \in nul : n < firstHit THEN "throws"
        ELSE IF hit /= {} THEN "true" ELSE "false"

\* ClassifyLine with the queued-operation records counted as metadata
ClassifyLineQueueIsMeta(r) ==
    IF ~r.ok THEN "skip"
    ELSE IF r.type = "" \/ r.type \in META_TYPES \cup { "queue-operation" } THEN "skip"
    ELSE IF r.type \in { "progress", "user" } THEN "running"
    ELSE IF r.type /= "assistant" THEN "running"
    ELSE IF ~IsSome(r.content) THEN "running"
    ELSE LET hasToolUse == SomeOfType(r.content[1], "tool_use")
             hasText == SomeOfType(r.content[1], "text")
         IN  IF hasToolUse = "throws" THEN "running"
             ELSE IF hasToolUse = "true" THEN "waiting"
             ELSE IF hasText = "throws" THEN "running"
             ELSE IF hasText = "true" THEN "idle" ELSE "running"

\* ClassifyLine with a record of an unrecognized type passed over
ClassifyLineUnknownSkipped(r) ==
    IF ~r.ok THEN "skip"
    ELSE IF r.type = "" \/ r.type \in META_TYPES THEN "skip"
    ELSE IF r.type \in { "progress", "user", "queue-operation" } THEN "running"
    ELSE IF r.type /= "assistant" THEN "skip"
    ELSE IF ~IsSome(r.content) THEN "running"
    ELSE LET hasToolUse == SomeOfType(r.content[1], "tool_use")
             hasText == SomeOfType(r.content[1], "text")
         IN  IF hasToolUse = "throws" THEN "running"
             ELSE IF hasToolUse = "true" THEN "waiting"
             ELSE IF hasText = "throws" THEN "running"
             ELSE IF hasText = "true" THEN "idle" ELSE "running"

\* The body of the backward loop for one line: "skip" for continue, else the
\* status returned (an exception reaches the outer catch, which returns running)
ClassifyLine(r) ==
    IF ~r.ok THEN "skip"
    ELSE IF r.type = "" \/ r.type \in META_TYPES THEN "skip"
    ELSE IF r.type \in { "progress", "user", "queue-operation" } THEN "running"
    ELSE IF r.type /= "assistant" THEN "running"
    ELSE IF ~IsSome(r.content) THEN "running"
    ELSE LET hasToolUse == SomeOfType(r.content[1], "tool_use")
             hasText == SomeOfType(r.content[1], "text")
         IN  IF hasToolUse = "throws" THEN "running"
             ELSE IF hasToolUse = "true" THEN "waiting"
             ELSE IF hasText = "throws" THEN "running"
             ELSE IF hasText = "true" THEN "idle" ELSE "running"

RECURSIVE ScanBack(_, _, _)
ScanBack(log, i, first) ==
    IF i < first THEN "running"
    ELSE LET s == ClassifyLine(log[i])
         IN  IF s = "skip" THEN ScanBack(log, i - 1, first) ELSE s

resolveActiveStatus(filePath) ==
    LET f == fs[filePath]
    IN  IF ~f.exists \/ ~f.readable THEN "running"
        ELSE IF FileSize(f.log) = 0 THEN "running"
        ELSE ScanBack(f.log, Len(f.log), FirstTailLine(f.log))

\* for ... of readdirSync(subagentsDir): a stat that throws ends the function
RECURSIVE SubagentLoop(_, _)
SubagentLoop(listing, i) ==
    IF i > Len(listing) THEN FALSE
    ELSE IF ~listing[i].jsonl THEN SubagentLoop(listing, i + 1)
    ELSE IF ~listing[i].statOK THEN FALSE
    ELSE IF now - listing[i].mtime < SUBAGENT_THRESHOLD THEN TRUE
    ELSE SubagentLoop(listing, i + 1)

hasActiveSubagent(filePath) ==
    IF ~IsSome(subagents[filePath]) THEN FALSE
    ELSE SubagentLoop(subagents[filePath][1], 1)

\* determineStatus with the membership test made after the recency overrides
determineStatusOverrideFirst(sessionId, activeSessionIds, filePath, mtimeMs) ==
    LET status == resolveActiveStatus(filePath)
    IN  IF status = "idle" /\ now - mtimeMs < RECENT_THRESHOLD THEN "running"
        ELSE IF status = "waiting" /\ now - mtimeMs < RECENT_THRESHOLD THEN "running"
        ELSE IF status = "waiting" /\ hasActiveSubagent(filePath) THEN "running"
        ELSE IF sessionId \notin activeSessionIds THEN "inactive"
        ELSE status

\* determineStatus with <= for < in the recency tests
determineStatusInclusive(sessionId, activeSessionIds, filePath, mtimeMs) ==
    IF sessionId \notin activeSessionIds THEN "inactive"
    ELSE LET status == resolveActiveStatus(filePath)
         IN  IF status = "idle" /\ now - mtimeMs <= RECENT_THRESHOLD THEN "running"
             ELSE IF status = "waiting" /\ now - mtimeMs <= RECENT_THRESHOLD THEN "running"
             ELSE IF status = "waiting" /\ hasActiveSubagent(filePath) THEN "running"
             ELSE status

\* determineStatus without the recency test of the waiting branch
determineStatusNoWaitingRecency(sessionId, activeSessionIds, filePath, mtimeMs) ==
    IF sessionId \notin activeSessionIds THEN "inactive"
    ELSE LET status == resolveActiveStatus(filePath)
         IN  IF status = "idle" /\ now - mtimeMs < RECENT_THRESHOLD THEN "running"
             ELSE IF status = "waiting" /\ hasActiveSubagent(filePath) THEN "running"
             ELSE status

determineStatus(sessionId, activeSessionIds, filePath, mtimeMs) ==
    IF sessionId \notin activeSessionIds THEN "inactive"
    ELSE LET status == resolveActiveStatus(filePath)
         IN  IF status = "idle" /\ now - mtimeMs < RECENT_THRESHOLD THEN "running"
             ELSE IF status = "waiting" /\ now - mtimeMs < RECENT_THRESHOLD THEN "running"
             ELSE IF status = "waiting" /\ hasActiveSubagent(filePath) THEN "running"
             ELSE status

----------------------------------------------------------------------------
(* The universe of the model: directories, files, project paths            *)

DirA == << "-", "a" >>

DirB == << "-", "b" >>

\* readdirSync(CLAUDE_DIR) lists the entries in this order
DirOrder == << DirA, DirB >>

FileS1 == << "s", "1" >> \o Jsonl

FileS2 == << "s", "2" >> \o Jsonl

FileTxt == << "s", "1", ".", "t", "x", "t" >>

\* readdirSync(dirPath) lists the files in this order
FileOrder == << FileS1, FileS2, FileTxt >>

S1 == << "s", "1" >>

S2 == << "s", "2" >>

Range(seq) == { seq[i] : i \in DOMAIN seq }

DirNames == Range(DirOrder)

Paths == DirNames \X Range(FileOrder)

PathA == << "/", "a" >>

PathB == << "/", "b" >>

PathW == << "/", "w" >>

ProjectPaths == { PathA, PathB, PathW }

\* Finite maps (the Map objects of the code) are functions on their key set
EmptyMap == [ k \in {} |-> k ]

MapPut(m, k, v) == [ x \in DOMAIN m \cup { k } |-> IF x = k THEN v ELSE m[x] ]

MapGet(m, k) == IF k \in DOMAIN m THEN Some(m[k]) ELSE None

\* The files readdirSync(dirPath) returns, in listing order
RECURSIVE Listing(_, _)
Listing(dir, i) ==
    IF i > Len(FileOrder) THEN << >>
    ELSE IF fs[<< dir, FileOrder[i] >>].exists
         THEN << FileOrder[i] >> \o Listing(dir, i + 1)
         ELSE Listing(dir, i + 1)

\* The entries readdirSync(CLAUDE_DIR) returns, in listing order
RECURSIVE RootListing(_)
RootListing(i) ==
    IF i > Len(DirOrder) THEN << >>
    ELSE IF dirs[DirOrder[i]] /= "absent"
         THEN << DirOrder[i] >> \o RootListing(i + 1)
         ELSE RootListing(i + 1)

----------------------------------------------------------------------------
(* utils/sessionStatus.ts: the process correlator                          *)

\* The loop of matchSessionByBirthTime over the listing; best is undefined or
\* << bestId, bestDiff >>.  A stat that throws makes the function return
\* undefined, whatever was found before.
\* A window without its upper end
InWindowNoUpperEnd(diff) == diff >= -5000

\* diff >= -5000 && diff <= 300000
InWindow(diff) == diff >= -5000 /\ diff <= 300000

RECURSIVE BirthLoop(_, _, _, _, _)
BirthLoop(dir, listing, i, processStartMs, best) ==
    IF i > Len(listing) THEN (IF IsSome(best) THEN Some(best[1][1]) ELSE None)
    ELSE LET f == listing[i]
             st == fs[<< dir, f >>]
         IN  IF ~EndsWith(f, Jsonl) THEN BirthLoop(dir, listing, i + 1, processStartMs, best)
             ELSE IF ~st.statOK THEN None
             ELSE LET diff == st.birth - processStartMs
                  IN  IF /\ InWindow(diff)
                         /\ (~IsSome(best) \/ diff < best[1][2])
                      THEN With(Some(<< ReplaceFirst(f, Jsonl, << >>), diff >>),
                                LAMBDA b : BirthLoop(dir, listing, i + 1, processStartMs, b))
                      ELSE BirthLoop(dir, listing, i + 1, processStartMs, best)

\* '-' + cwd.slice(1).replaceAll('/', '-')
CwdDirName(cwd) == << "-" >> \o ReplaceAllCh(SubSeq(cwd, 2, Len(cwd)), "/", "-")

matchSessionByBirthTime(cwd, processStartMs) ==
    LET dirName == CwdDirName(cwd)
    IN  IF dirName \notin DirNames \/ dirs[dirName] /= "dir" THEN None
        ELSE BirthLoop(dirName, Listing(dirName, 1), 1, processStartMs, None)

\* A process is [ resume, cwd, start ]: the id after --resume, what lsof gives
\* for its working directory and what ps gives for its start time, each
\* undefined when absent or when the lookup fails.
getActiveSessionIds ==
    LET withResume == { p \in procs : IsSome(p.resume) }
        pidsWithoutResume == procs \ withResume
        matched(p) ==
            IF ~TruthySeq(p.cwd) THEN None
            ELSE IF ~IsSome(p.start) \/ p.start = Some(0) THEN None
            ELSE matchSessionByBirthTime(p.cwd[1], p.start[1])
    IN  { p.resume[1] : p \in withResume }
        \cup { matched(p)[1] : p \in { q \in pidsWithoutResume : TruthySeq(matched(q)) } }

----------------------------------------------------------------------------
(* hooks/useSessions.ts: helpers of the scanner                            *)

\* dirName.replace(/^-/, '/').replaceAll('-', '/')
deriveProjectPath(dirName) ==
    LET first == IF Len(dirName) > 0 /\ dirName[1] = "-"
                 THEN << "/" >> \o SubSeq(dirName, 2, Len(dirName))
                 ELSE dirName
    IN  ReplaceAllCh(first, "-", "/")

\* The loop of parseJsonlMetadata from line i on; JSON.parse throwing on a line
\* ends the loop (the try encloses it) with what was counted so far.
RECURSIVE MetaLoop(_, _, _)
MetaLoop(log, i, meta) ==
    IF i > Len(log) THEN meta
    ELSE IF ~log[i].ok THEN meta
    ELSE LET r == log[i]
             counted == IF r.type \in { "user", "assistant" }
                        THEN meta.messageCount + 1 ELSE meta.messageCount
             branch == IF r.type = "user" /\ Truthy(r.gitBranch)
                       THEN r.gitBranch ELSE meta.gitBranch
             cwd == IF r.type = "user" /\ ~TruthySeq(meta.cwd) /\ TruthySeq(r.cwd)
                    THEN r.cwd ELSE meta.cwd
         IN  With([ messageCount |-> counted, gitBranch |-> branch, cwd |-> cwd ],
                  LAMBDA m : MetaLoop(log, i + 1, m))

NoMeta == [ messageCount |-> 0, gitBranch |-> None, cwd |-> None ]

\* Returns the metadata and the metadata cache after the call
parseJsonlMetadata(cache, filePath, mtimeMs) ==
    IF filePath \in DOMAIN cache /\ cache[filePath].mtimeMs = mtimeMs
    THEN [ meta |-> cache[filePath].meta, cache |-> cache ]
    ELSE LET f == fs[filePath]
             meta == IF ~f.exists \/ ~f.readable THEN NoMeta
                     ELSE MetaLoop(f.log, 1, NoMeta)
         IN  [ meta |-> meta,
               cache |-> MapPut(cache, filePath, [ mtimeMs |-> mtimeMs, meta |-> meta ]) ]

\* What the readers of MANIFEST_READERS extract at projectPath, in order:
\* undefined when the file is absent, unreadable or yields no name
ManifestsAt(projectPath) ==
    IF projectPath \in DOMAIN manifests THEN manifests[projectPath] ELSE << >>

RECURSIVE FirstName(_, _)
FirstName(found, i) ==
    IF i > Len(found) THEN None
    ELSE IF TruthySeq(found[i]) THEN found[i]
    ELSE FirstName(found, i + 1)

\* Returns the name and the project name cache after the call
resolveProjectName(cache, projectPath) ==
    IF projectPath \in DOMAIN cache
    THEN [ name |-> cache[projectPath], cache |-> cache ]
    ELSE LET name == FirstName(ManifestsAt(projectPath), 1)
             result == IF IsSome(name) THEN name[1] ELSE LastSegment(projectPath)
         IN  [ name |-> result, cache |-> MapPut(cache, projectPath, result) ]

\* Returns the branch (undefined when git fails) and the branch cache after
resolveGitBranch(cache, projectPath) ==
    IF projectPath \in DOMAIN cache
    THEN [ branch |-> Some(cache[projectPath]), cache |-> cache ]
    ELSE IF projectPath \in DOMAIN gitHead /\ IsSome(gitHead[projectPath])
    THEN [ branch |-> gitHead[projectPath],
           cache |-> MapPut(cache, projectPath, gitHead[projectPath][1]) ]
    ELSE [ branch |-> None, cache |-> cache ]

\* entries.set(entry.sessionId, entry) for every entry, in order
RECURSIVE EntryMap(_, _, _)
EntryMap(entries, i, m) ==
    IF i > Len(entries) THEN m
    ELSE With(MapPut(m, entries[i].sessionId, entries[i]),
              LAMBDA n : EntryMap(entries, i + 1, n))

NoIndex == [ exists |-> FALSE ]

\* Returns the index data (undefined on any failure) and the index cache after
loadIndex(cache, dirPath) ==
    LET file == indexFile[dirPath]
    IN  IF ~file.exists THEN [ data |-> None, cache |-> cache ]
        ELSE IF dirPath \in DOMAIN cache /\ cache[dirPath].mtimeMs = file.mtime
        THEN [ data |-> Some(cache[dirPath].data), cache |-> cache ]
        ELSE IF ~file.parses THEN [ data |-> None, cache |-> cache ]
        ELSE LET data == [ entries |-> EntryMap(file.entries, 1, EmptyMap),
                           projectPath |-> IF Len(file.entries) > 0
                                           THEN file.entries[1].projectPath ELSE None ]
             IN  [ data |-> Some(data),
                   cache |-> MapPut(cache, dirPath, [ mtimeMs |-> file.mtime, data |-> data ]) ]

\* The comparator of sortRows: negative when a sorts before b
Compare(a, b) ==
    IF STATUS_PRIORITY[a.status] - STATUS_PRIORITY[b.status] /= 0
    THEN STATUS_PRIORITY[a.status] - STATUS_PRIORITY[b.status]
    ELSE b.lastActive - a.lastActive

\* Array.prototype.sort is stable: a row goes behind every row that does not
\* sort after it
RECURSIVE InsertRow(_, _)
InsertRow(sorted, r) ==
    IF sorted = << >> THEN << r >>
    ELSE IF Compare(r, sorted[1]) < 0 THEN << r >> \o sorted
    ELSE << sorted[1] >> \o InsertRow(Tail(sorted), r)

RECURSIVE SortFrom(_, _, _)
SortFrom(rows, i, sorted) ==
    IF i > Len(rows) THEN sorted
    ELSE With(InsertRow(sorted, rows[i]), LAMBDA t : SortFrom(rows, i + 1, t))

\* A scan that returns the rows in the order it found them
sortRowsUnsorted(rows) == rows

sortRows(rows) == SortFrom(rows, 1, << >>)

RowsOf(cached) == [ i \in 1..Len(cached) |-> cached[i].row ]

----------------------------------------------------------------------------
(* hooks/useSessions.ts: watchers                                          *)

WatchPaths == { CLAUDE_DIR } \cup DirNames

\* Returns the registry and the open handles after watchDir(dirPath)
watchDir(w, dirPath) ==
    IF dirPath \in w.reg THEN w
    ELSE IF dirPath \in watchable
    THEN [ reg |-> w.reg \cup { dirPath },
           open |-> [ w.open EXCEPT ![dirPath] = @ + 1 ] ]
    ELSE w

\* watcher.close() for the registered watcher of every path in gone, and
\* dirWatchers.delete(path)
CloseWatchers(w, gone) ==
    [ reg |-> w.reg \ gone,
      open |-> [ d \in WatchPaths |-> IF d \in gone /\ d \in w.reg /\ w.open[d] > 0
                                     THEN w.open[d] - 1 ELSE w.open[d] ] ]

----------------------------------------------------------------------------
(* hooks/useSessions.ts: fullScan                                          *)

\* gitBranch = indexEntry?.gitBranch ?? jsonlMeta?.gitBranch
BranchFromData(indexEntry, jsonlMeta) ==
    Coalesce(IF IsSome(indexEntry) THEN indexEntry[1].gitBranch ELSE None,
             IF IsSome(jsonlMeta) THEN jsonlMeta[1].gitBranch ELSE None)

\* if (!gitBranch || gitBranch === 'HEAD')
NeedsLiveBranch(gitBranch) == ~Truthy(gitBranch) \/ gitBranch = Some("HEAD")

\* indexEntry?.projectPath ?? jsonlMeta?.cwd ?? indexData?.projectPath ?? deriveProjectPath(dir)
ProjectPathOf(indexEntry, jsonlMeta, indexData, dir) ==
    Coalesce(IF IsSome(indexEntry) THEN indexEntry[1].projectPath ELSE None,
      Coalesce(IF IsSome(jsonlMeta) THEN jsonlMeta[1].cwd ELSE None,
        Coalesce(IF IsSome(indexData) THEN indexData[1].projectPath ELSE None,
                 Some(deriveProjectPath(dir)))))[1]

\* indexEntry?.messageCount ?? jsonlMeta?.messageCount ?? 0
MessageCountOf(indexEntry, jsonlMeta) ==
    Coalesce(IF IsSome(indexEntry) THEN indexEntry[1].messageCount ELSE None,
      Coalesce(IF IsSome(jsonlMeta) THEN Some(jsonlMeta[1].messageCount) ELSE None,
               Some(0)))[1]

\* A scan that finds no entry in any index
IndexEntryIgnored(indexData, sessionId) == None

\* indexData?.entries.get(sessionId)
IndexEntryOf(indexData, sessionId) ==
    IF IsSome(indexData) THEN MapGet(indexData[1].entries, sessionId) ELSE None

\* if (!isActive && now - mtime.getTime() > STALE_THRESHOLD) continue
IsStale(isActive, nowMs, mtime) == ~isActive /\ nowMs - mtime > STALE_THRESHOLD

\* The body of the loop over the files of one directory.  acc carries the
\* sessions found so far and the three memo caches the body updates, and
\* whether an exception has left the scan: join(projectPath, file) in
\* resolveProjectName throws a TypeError when projectPath is not a string, and
\* no try encloses it.
ScanFile(acc, dir, file, nowMs, activeIds, indexData) ==
    LET sessionId == ReplaceFirst(file, Jsonl, << >>)
        filePath == << dir, file >>
        st == fs[filePath]
    IN  IF ~st.statOK THEN acc
        ELSE IF IsStale(sessionId \in activeIds, nowMs, st.mtime) THEN acc
        ELSE
        LET indexEntry == IndexEntryOf(indexData, sessionId)
            parsed == parseJsonlMetadata(acc.metas, filePath, st.mtime)
            jsonlMeta == IF IsSome(indexEntry) THEN None ELSE Some(parsed.meta)
            metas == IF IsSome(indexEntry) THEN acc.metas ELSE parsed.cache
            projectPath == ProjectPathOf(indexEntry, jsonlMeta, indexData, dir)
            named == resolveProjectName(acc.names, projectPath)
            status == determineStatus(sessionId, activeIds, filePath, st.mtime)
            fromData == BranchFromData(indexEntry, jsonlMeta)
            live == resolveGitBranch(acc.branches, projectPath)
            gitBranch == IF NeedsLiveBranch(fromData)
                         THEN Coalesce(live.branch, Coalesce(fromData, Some("N/A")))[1]
                         ELSE fromData[1]
            row == [ sessionId |-> sessionId,
                     projectPath |-> projectPath,
                     projectName |-> named.name,
                     gitBranch |-> gitBranch,
                     status |-> status,
                     lastActive |-> st.mtime,
                     messageCount |-> MessageCountOf(indexEntry, jsonlMeta) ]
        IN  IF ~IsString(projectPath)
            THEN [ acc EXCEPT !.metas = metas, !.raised = TRUE ]
            ELSE [ sessions |-> Append(acc.sessions,
                                       [ filePath |-> filePath, sessionId |-> sessionId,
                                         mtimeMs |-> st.mtime, row |-> row ]),
                   names |-> named.cache,
                   branches |-> IF NeedsLiveBranch(fromData) THEN live.cache
                                ELSE acc.branches,
                   metas |-> metas,
                   raised |-> FALSE ]

RECURSIVE ScanFiles(_, _, _, _, _, _, _)
ScanFiles(acc, dir, files, i, nowMs, activeIds, indexData) ==
    IF i > Len(files) \/ acc.raised THEN acc
    ELSE With(ScanFile(acc, dir, files[i], nowMs, activeIds, indexData),
              LAMBDA a : ScanFiles(a, dir, files, i + 1, nowMs, activeIds, indexData))

\* files = readdirSync(dirPath).filter((f) => f.endsWith('.jsonl'))
JsonlFiles(dir) == SelectSeq(Listing(dir, 1), LAMBDA f : EndsWith(f, Jsonl))

\* The body of the loop over the project directories.  acc also carries the
\* index cache and the watchers.
ScanDirFiles(base, dir, nowMs, activeIds, indexData) ==
    IF dirs[dir] /= "dir" THEN base
    ELSE With(ScanFiles([ sessions |-> base.sessions, names |-> base.names,
                          branches |-> base.branches, metas |-> base.metas,
                          raised |-> base.raised ],
                        dir, JsonlFiles(dir), 1, nowMs, activeIds, indexData),
              LAMBDA inner :
                  [ base EXCEPT !.sessions = inner.sessions, !.names = inner.names,
                                !.branches = inner.branches, !.metas = inner.metas,
                                !.raised = inner.raised ])

ScanDir(acc, dir, nowMs, activeIds) ==
    With(loadIndex(acc.indexes, dir),
         LAMBDA loaded :
             ScanDirFiles([ acc EXCEPT !.watch = watchDir(acc.watch, dir),
                                       !.indexes = loaded.cache ],
                          dir, nowMs, activeIds, loaded.data))

RECURSIVE ScanDirs(_, _, _, _, _)
ScanDirs(acc, projectDirs, i, nowMs, activeIds) ==
    IF i > Len(projectDirs) \/ acc.raised THEN acc
    ELSE With(ScanDir(acc, projectDirs[i], nowMs, activeIds),
              LAMBDA a : ScanDirs(a, projectDirs, i + 1, nowMs, activeIds))

\* A scan of an unreadable root that returns the entries it has cached
RootUnreadableKeepsCache(start) ==
    [ start EXCEPT !.sessions = cachedSessions ]
    @@ [ rows |-> sortRows(RowsOf(cachedSessions)) ]

\* catch { cachedSessions = []; return []; } around readdirSync(CLAUDE_DIR)
RootUnreadable(start) == [ start EXCEPT !.sessions = << >> ] @@ [ rows |-> << >> ]

\* The state fullScan() leaves and the list it returns, or, when an exception
\* leaves it (raised), the state it has reached by then: the cached entries
\* are not assigned and no watcher is pruned
FullScanOutcome ==
    LET activeIds == getActiveSessionIds
        watch0 == watchDir([ reg |-> dirWatchers, open |-> openWatches ], CLAUDE_DIR)
        start == [ sessions |-> << >>, names |-> projectNameCache, branches |-> EmptyMap,
                   metas |-> metadataCache, indexes |-> indexCache, watch |-> watch0,
                   raised |-> FALSE ]
    IN  IF ~rootOK
        THEN RootUnreadable(start) @@ [ activeIds |-> activeIds ]
        ELSE LET projectDirs == RootListing(1)
                 activeDirs == { CLAUDE_DIR } \cup Range(projectDirs)
             IN  With(ScanDirs(start, projectDirs, 1, now, activeIds),
                      LAMBDA done :
                          IF done.raised
                          THEN [ done EXCEPT !.sessions = cachedSessions ]
                               @@ [ activeIds |-> activeIds, rows |-> << >> ]
                          ELSE [ done EXCEPT
                                   !.watch = CloseWatchers(done.watch,
                                                           done.watch.reg \ activeDirs) ]
                               @@ [ activeIds |-> activeIds,
                                    rows |-> sortRows(RowsOf(done.sessions)) ])

\* The modification time statSync reports for each path now (-1: it throws)
Seen == [ p \in Paths |-> IF fs[p].exists /\ fs[p].statOK THEN fs[p].mtime ELSE -1 ]

NoScan ==
    [ op |-> "none", at |-> 0, rows |-> << >>, seen |-> [ p \in Paths |-> -1 ],
      quiet |-> FALSE ]

\* A full scan that builds the entries with the new active set and keeps the
\* old one cached
fullScanKeepsActiveIds ==
    \E out \in { FullScanOutcome } :
        /\ lastFullScanMs' = now
        /\ cachedActiveIds' = cachedActiveIds
        /\ gitBranchCache' = out.branches
        /\ cachedSessions' = out.sessions
        /\ projectNameCache' = out.names
        /\ metadataCache' = out.metas
        /\ indexCache' = out.indexes
        /\ dirWatchers' = out.watch.reg
        /\ openWatches' = out.watch.open
        /\ lastScan' = [ op |-> IF out.raised THEN "raised" ELSE "full", at |-> now,
                          rows |-> out.rows, seen |-> Seen, quiet |-> FALSE ]

fullScan ==
    \E out \in { FullScanOutcome } :
        /\ lastFullScanMs' = now
        /\ cachedActiveIds' = out.activeIds
        /\ gitBranchCache' = out.branches
        /\ cachedSessions' = out.sessions
        /\ projectNameCache' = out.names
        /\ metadataCache' = out.metas
        /\ indexCache' = out.indexes
        /\ dirWatchers' = out.watch.reg
        /\ openWatches' = out.watch.open
        /\ lastScan' = [ op |-> IF out.raised THEN "raised" ELSE "full", at |-> now,
                          rows |-> out.rows, seen |-> Seen, quiet |-> FALSE ]

----------------------------------------------------------------------------
(* Bounds                                                                  *)

\* The time at which the program starts (Date.now() at the first render)
StartTime == 200000000

\* Longest log the classifier harness draws
MaxLogLen == 2

\* Longest subagents listing the classifier harness draws
MaxSubagents == 2

\* How many events (file changes, process changes, watcher errors) the
\* environment produces in one run
MaxEnvSteps == 2

\* Longest session log the environment of the engine writes
MaxAppend == 3

\* The longest project path encoded and decoded
MaxPathLen == 5

----------------------------------------------------------------------------
(* hooks/useSessions.ts: quickScan, fetchSessions, useSessions             *)

\* statSync of the file of cached throws, or reports the modification time the
\* last scan saw
Unmodified(cached) ==
    \/ ~fs[cached.filePath].exists
    \/ ~fs[cached.filePath].statOK
    \/ fs[cached.filePath].mtime = lastScan.seen[cached.filePath]

\* A quick scan that classifies every entry again, modified or not
QuickEntryRecompute(cached) ==
    LET stat == fs[cached.filePath]
    IN  IF ~stat.exists \/ ~stat.statOK THEN cached
        ELSE [ cached EXCEPT
                 !.mtimeMs = stat.mtime,
                 !.row = [ cached.row EXCEPT
                             !.lastActive = stat.mtime,
                             !.status = determineStatus(cached.sessionId, cachedActiveIds,
                                                        cached.filePath, stat.mtime) ] ]

\* A quick scan that asks the process table again
QuickEntryLiveIds(cached) ==
    LET stat == fs[cached.filePath]
    IN  IF ~stat.exists \/ ~stat.statOK THEN cached
        ELSE IF stat.mtime = cached.mtimeMs THEN cached
        ELSE [ cached EXCEPT
                 !.mtimeMs = stat.mtime,
                 !.row = [ cached.row EXCEPT
                             !.lastActive = stat.mtime,
                             !.status = determineStatus(cached.sessionId, getActiveSessionIds,
                                                        cached.filePath, stat.mtime) ] ]

\* A quick scan that renews the row and keeps the stored modification time
QuickEntryKeepsTime(cached) ==
    LET stat == fs[cached.filePath]
    IN  IF ~stat.exists \/ ~stat.statOK THEN cached
        ELSE IF stat.mtime = cached.mtimeMs THEN cached
        ELSE [ cached EXCEPT
                 !.row = [ cached.row EXCEPT
                             !.lastActive = stat.mtime,
                             !.status = determineStatus(cached.sessionId, cachedActiveIds,
                                                        cached.filePath, stat.mtime) ] ]

\* A quick scan that takes the session of a modified log for an active one
QuickEntryAssumesActive(cached) ==
    LET stat == fs[cached.filePath]
    IN  IF ~stat.exists \/ ~stat.statOK THEN cached
        ELSE IF stat.mtime = cached.mtimeMs THEN cached
        ELSE [ cached EXCEPT
                 !.mtimeMs = stat.mtime,
                 !.row = [ cached.row EXCEPT
                             !.lastActive = stat.mtime,
                             !.status = determineStatus(cached.sessionId,
                                                        cachedActiveIds \cup { cached.sessionId },
                                                        cached.filePath, stat.mtime) ] ]

\* The body of the loop of quickScan for one cached entry
QuickEntry(cached) ==
    LET stat == fs[cached.filePath]
    IN  IF ~stat.exists \/ ~stat.statOK THEN cached
        ELSE IF stat.mtime = cached.mtimeMs THEN cached
        ELSE [ cached EXCEPT
                 !.mtimeMs = stat.mtime,
                 !.row = [ cached.row EXCEPT
                             !.lastActive = stat.mtime,
                             !.status = determineStatus(cached.sessionId, cachedActiveIds,
                                                        cached.filePath, stat.mtime) ] ]

\* A quick scan that drops the entries whose file is gone
quickScanDropsDeleted ==
    \E rescanned \in { SelectSeq([ i \in 1..Len(cachedSessions) |->
                                      QuickEntry(cachedSessions[i]) ],
                                  LAMBDA c : fs[c.filePath].exists) } :
        /\ cachedSessions' = rescanned
        /\ lastScan' = [ op |-> "quick", at |-> now, rows |-> sortRows(RowsOf(rescanned)),
                          seen |-> Seen,
                          quiet |-> \A i \in 1..Len(cachedSessions) :
                                       Unmodified(cachedSessions[i]) ]
        /\ UNCHANGED << lastFullScanMs, cachedActiveIds, gitBranchCache, projectNameCache,
                        metadataCache, indexCache, dirWatchers, openWatches >>

quickScan ==
    \E rescanned \in { [ i \in 1..Len(cachedSessions) |-> QuickEntry(cachedSessions[i]) ] } :
        /\ cachedSessions' = rescanned
        /\ lastScan' = [ op |-> "quick", at |-> now, rows |-> sortRows(RowsOf(rescanned)),
                          seen |-> Seen,
                          quiet |-> \A i \in 1..Len(cachedSessions) :
                                       Unmodified(cachedSessions[i]) ]
        /\ UNCHANGED << lastFullScanMs, cachedActiveIds, gitBranchCache, projectNameCache,
                        metadataCache, indexCache, dirWatchers, openWatches >>

\* A refresh that runs the full scan only once the interval is exceeded
fetchSessionsExceeds ==
    IF now - lastFullScanMs > FULL_SCAN_INTERVAL THEN fullScan ELSE quickScan

fetchSessions ==
    IF now - lastFullScanMs >= FULL_SCAN_INTERVAL THEN fullScan ELSE quickScan

markDirty == dirty' = TRUE

\* A teardown that empties the registry and closes no watcher
closeAllWatchersClearOnly ==
    /\ dirWatchers' = {}
    /\ openWatches' = openWatches

closeAllWatchers ==
    LET closed == CloseWatchers([ reg |-> dirWatchers, open |-> openWatches ], dirWatchers)
    IN  /\ dirWatchers' = closed.reg
        /\ openWatches' = closed.open

envVars ==
    << rootOK, dirs, fs, subagents, indexFile, procs, manifests, gitHead, watchable,
       envSteps >>

engineVars ==
    << lastFullScanMs, cachedActiveIds, cachedSessions, projectNameCache, gitBranchCache,
       indexCache, metadataCache, dirWatchers, openWatches, lastScan >>

\* useState(() => { const result = fetchSessions(); dirty = false; return result })
\* Nothing catches an exception that leaves fetchSessions(): the program ends.
Render ==
    /\ phase = "start"
    /\ fetchSessions
    /\ IF lastScan'.op = "raised"
       THEN /\ phase' = "crashed"
            /\ UNCHANGED << dirty, sessions >>
       ELSE /\ dirty' = FALSE
            /\ sessions' = lastScan'.rows
            /\ phase' = "rendered"
    /\ UNCHANGED << now, envVars, lastTick, calls >>

\* useEffect: setInterval(..., RENDER_INTERVAL)
Effect ==
    /\ phase = "rendered"
    /\ phase' = "mounted"
    /\ lastTick' = now
    /\ UNCHANGED << now, envVars, engineVars, dirty, sessions, calls >>

\* An interval callback that refreshes only when a full scan is due
TimerTickIgnoresDirty ==
    /\ phase = "mounted"
    /\ now - lastTick >= RENDER_INTERVAL
    /\ lastTick' = now
    /\ IF now - lastFullScanMs >= FULL_SCAN_INTERVAL
       THEN /\ fetchSessions
            /\ sessions' = lastScan'.rows
            /\ dirty' = FALSE
       ELSE UNCHANGED << engineVars, sessions, dirty >>
    /\ UNCHANGED << now, envVars, phase, calls >>

\* The interval callback
TimerTick ==
    /\ phase = "mounted"
    /\ now - lastTick >= RENDER_INTERVAL
    /\ lastTick' = now
    /\ LET needsFullScan == now - lastFullScanMs >= FULL_SCAN_INTERVAL
       IN  IF needsFullScan \/ dirty
           THEN /\ fetchSessions
                /\ IF lastScan'.op = "raised"
                   THEN /\ phase' = "crashed"
                        /\ UNCHANGED << sessions, dirty >>
                   ELSE /\ sessions' = lastScan'.rows
                        /\ dirty' = FALSE
                        /\ phase' = phase
           ELSE UNCHANGED << engineVars, sessions, dirty, phase >>
    /\ UNCHANGED << now, envVars, calls >>

\* The cleanup of the effect: clearInterval(interval); closeAllWatchers()
Teardown ==
    /\ phase = "mounted"
    /\ phase' = "unmounted"
    /\ closeAllWatchers
    /\ UNCHANGED << now, envVars, lastFullScanMs, cachedActiveIds, cachedSessions,
                    projectNameCache, gitBranchCache, indexCache, metadataCache,
                    lastScan, dirty, sessions, lastTick, calls >>

\* A change notification of a watcher of dirPath that has not been closed
WatchEvent(dirPath) ==
    /\ openWatches[dirPath] > 0
    /\ markDirty
    /\ UNCHANGED << now, envVars, engineVars, sessions, phase, lastTick, calls >>

\* watcher.on('error', ...): close the watcher and drop it from the registry.
\* The error is an event of the environment and counts as one of its steps.
WatcherError(dirPath) ==
    /\ envSteps < MaxEnvSteps
    /\ envSteps' = envSteps + 1
    /\ dirPath \in dirWatchers
    /\ openWatches[dirPath] > 0
    /\ LET closed == CloseWatchers([ reg |-> dirWatchers, open |-> openWatches ], { dirPath })
       IN  /\ dirWatchers' = closed.reg
           /\ openWatches' = closed.open
    /\ UNCHANGED << now, rootOK, dirs, fs, subagents, indexFile, procs, manifests, gitHead,
                    watchable, lastFullScanMs, cachedActiveIds, cachedSessions,
                    projectNameCache, gitBranchCache, indexCache, metadataCache,
                    lastScan, dirty, sessions, phase, lastTick, calls >>

----------------------------------------------------------------------------
(* The classifier on its own: determineStatus applied to one session log,  *)
(* twice at most, with time passing in between and nothing else changing   *)

P0 == << DirA, FileS1 >>

AssistantRec(items, bytes) == Rec("assistant", Some(items), bytes)

ClassifyRecords ==
    { UserRec(None, None, 120),
      Rec("progress", None, 120),
      Rec("queue-operation", None, 120),
      Rec("system", None, 120),
      Rec("file-history-snapshot", None, 120),
      Rec("summary", None, 120),
      Rec("", None, 120),
      BadLine(40),
      Rec("assistant", None, 120),
      AssistantRec(<< >>, 120),
      AssistantRec(<< "tool_use" >>, 120),
      AssistantRec(<< "text" >>, 120),
      AssistantRec(<< "text", "tool_use" >>, 120),
      AssistantRec(<< "null", "tool_use" >>, 120),
      AssistantRec(<< "text", "null" >>, 120),
      AssistantRec(<< "text" >>, 9000),
      AssistantRec(<< "tool_use" >>, 8191),
      Rec("system", None, 9000) }

ClassifyLogs == UNION { [ 1..n -> ClassifyRecords ] : n \in 0..MaxLogLen }

LogWaiting == << UserRec(None, None, 120), AssistantRec(<< "tool_use" >>, 120) >>

LogIdle == << UserRec(None, None, 120), AssistantRec(<< "text" >>, 120) >>

\* How long before StartTime the log was last modified
Ages == { 0, 1000, 2999, 3000, 10000 }

\* How long the harness waits between its two calls
Waits == { 1, 1999, 2000, 9000 }

SubagentEntries ==
    { [ jsonl |-> TRUE, statOK |-> TRUE, mtime |-> StartTime - 1000 ],
      [ jsonl |-> TRUE, statOK |-> TRUE, mtime |-> StartTime - 59999 ],
      [ jsonl |-> TRUE, statOK |-> TRUE, mtime |-> StartTime - 60000 ],
      [ jsonl |-> TRUE, statOK |-> FALSE, mtime |-> 0 ],
      [ jsonl |-> FALSE, statOK |-> TRUE, mtime |-> StartTime - 1000 ] }

SubagentListings ==
    { None } \cup { Some(l) : l \in UNION { [ 1..n -> SubagentEntries ] : n \in 0..MaxSubagents } }

NoSubagents == [ p \in Paths |-> None ]

NoWatches == [ d \in WatchPaths |-> 0 ]

\* Everything the classifier does not read
IdleEngine ==
    /\ rootOK = TRUE
    /\ dirs = [ d \in DirNames |-> "dir" ]
    /\ indexFile = [ d \in DirNames |-> NoIndex ]
    /\ procs = {}
    /\ manifests = EmptyMap
    /\ gitHead = EmptyMap
    /\ watchable = {}
    /\ lastFullScanMs = 0
    /\ dirty = TRUE
    /\ cachedSessions = << >>
    /\ projectNameCache = EmptyMap
    /\ gitBranchCache = EmptyMap
    /\ indexCache = EmptyMap
    /\ metadataCache = EmptyMap
    /\ dirWatchers = {}
    /\ openWatches = NoWatches
    /\ sessions = << >>
    /\ phase = "start"
    /\ lastTick = 0
    /\ lastScan = NoScan
    /\ envSteps = 0

InitClassify ==
    /\ now = StartTime
    /\ calls = << >>
    /\ IdleEngine
    /\ cachedActiveIds \in { {}, { S1 } }
    /\ \E age \in Ages :
         \/ /\ \E log \in ClassifyLogs :
                 fs = [ p \in Paths |->
                          IF p = P0 THEN FileRec(StartTime - age, StartTime - age, log)
                          ELSE NoFile ]
            /\ subagents = NoSubagents
         \/ /\ \E log \in { LogWaiting, LogIdle }, readable \in BOOLEAN :
                 fs = [ p \in Paths |->
                          IF p = P0
                          THEN [ FileRec(StartTime - age, StartTime - age, log)
                                   EXCEPT !.readable = readable ]
                          ELSE NoFile ]
            /\ \E listing \in SubagentListings :
                 subagents = [ p \in Paths |-> IF p = P0 THEN listing ELSE None ]

classifierFrame ==
    << rootOK, dirs, fs, subagents, indexFile, procs, manifests, gitHead, watchable,
       lastFullScanMs, cachedActiveIds, dirty, cachedSessions, projectNameCache,
       gitBranchCache, indexCache, metadataCache, dirWatchers, openWatches, sessions,
       phase, lastTick, lastScan, envSteps >>

\* One call determineStatus(sessionId, activeSessionIds, filePath, mtimeMs) for
\* the log P0 with the modification time stat gives; base is what
\* resolveActiveStatus returns for the file at that moment.
Classify ==
    /\ \/ calls = << >>
       \/ Len(calls) = 1 /\ now > calls[1].at
    /\ calls' = Append(calls,
                       [ at |-> now,
                         base |-> resolveActiveStatus(P0),
                         status |-> determineStatus(S1, cachedActiveIds, P0, fs[P0].mtime) ])
    /\ UNCHANGED << now, classifierFrame >>

\* Time passes between the two calls
Wait(d) ==
    /\ Len(calls) = 1
    /\ now = calls[1].at
    /\ now' = now + d
    /\ UNCHANGED << calls, classifierFrame >>

NextClassify ==
    \/ Classify
    \/ \E d \in Waits : Wait(d)

SpecClassify == InitClassify /\ [][NextClassify]_vars

----------------------------------------------------------------------------
(* Properties of the classifier (checked under SpecClassify)               *)

\* The session of the harness is in the ActiveProcessSet handed to determineStatus
HarnessActive == S1 \in cachedActiveIds

HarnessLog == fs[P0].log

\* How long before call c the log was modified
AgeAt(c) == c.at - fs[P0].mtime

\* C3: determineStatus returns inactive exactly when the session id is not in
\* the ActiveProcessSet, whatever the log, its modification time and the
\* subagents directory are; for an id in the set the result is running,
\* waiting or idle.
InactiveIffNotActive ==
    \A i \in DOMAIN calls :
        /\ calls[i].status = "inactive" <=> ~HarnessActive
        /\ HarnessActive => calls[i].status \in { "running", "waiting", "idle" }

\* A call for a session outside the set whose log, had the session been
\* active, would have met the recency override
InactiveWitness ==
    \E i \in DOMAIN calls :
        /\ ~HarnessActive
        /\ calls[i].status = "inactive"
        /\ calls[i].base = "idle"
        /\ AgeAt(calls[i]) < RECENT_THRESHOLD

\* A record that can decide the status: it parses, has a type, and is neither
\* a snapshot marker nor a system record
Substantive(r) == r.ok /\ r.type /= "" /\ r.type \notin { "file-history-snapshot", "system" }

\* The status the decision table gives for a substantive record of a
\* recognized type
TableStatus(r) ==
    IF r.type \in { "user", "progress", "queue-operation" } THEN "running"
    ELSE IF IsSome(r.content) /\ "tool_use" \in Range(r.content[1]) THEN "waiting"
    ELSE IF IsSome(r.content) /\ "text" \in Range(r.content[1]) THEN "idle"
    ELSE "running"

RecognizedType(r) == r.type \in { "user", "progress", "queue-operation", "assistant" }

\* The last substantive record of the whole log, 0 when there is none
LastSubstantive(log) ==
    LET idx == { i \in 1..Len(log) : Substantive(log[i]) }
    IN  IF idx = {} THEN 0 ELSE CHOOSE i \in idx : \A j \in idx : j <= i

\* Line i is inside the inspected tail: the log fits in TAIL_BYTES, or the
\* line starts after the first newline found in the last TAIL_BYTES bytes
InTail(log, i) ==
    \/ FileSize(log) <= TAIL_BYTES
    \/ \E k \in 1..(i - 1) : LineOffset(log, k) + log[k].bytes >= FileSize(log) - TAIL_BYTES

\* The last substantive record inside the inspected tail, 0 when there is none
LastSubstantiveInTail(log) ==
    LET idx == { i \in 1..Len(log) : InTail(log, i) /\ Substantive(log[i]) }
    IN  IF idx = {} THEN 0 ELSE CHOOSE i \in idx : \A j \in idx : j <= i

HasNullItem(r) == IsSome(r.content) /\ "null" \in Range(r.content[1])

FailOpen ==
    \A i \in DOMAIN calls :
        LET d == LastSubstantiveInTail(HarnessLog)
            e == LastSubstantive(HarnessLog)
        IN  (/\ HarnessActive
             /\ \/ ~fs[P0].readable
                \/ HarnessLog = << >>
                \/ d = 0
                \/ ~RecognizedType(HarnessLog[d])
                \/ e /= 0 /\ ~RecognizedType(HarnessLog[e]))
            => calls[i].status = "running"

\* An active session, long after the last write, whose last substantive
\* record has an unrecognized type and follows a record that gives idle
FailOpenWitness ==
    \E i \in DOMAIN calls :
        /\ HarnessActive
        /\ fs[P0].readable
        /\ Len(HarnessLog) = 2
        /\ TableStatus(HarnessLog[1]) = "idle" /\ Substantive(HarnessLog[1])
        /\ Substantive(HarnessLog[2]) /\ ~RecognizedType(HarnessLog[2])
        /\ AgeAt(calls[i]) >= RECENT_THRESHOLD
        /\ calls[i].status = "running"

\* A log of the session's subagents directory was modified less than 60 s
\* before time t
RecentSubagentAt(t) ==
    /\ IsSome(subagents[P0])
    /\ \E k \in DOMAIN subagents[P0][1] :
         LET e == subagents[P0][1][k]
         IN  e.jsonl /\ e.statOK /\ t - e.mtime < SUBAGENT_THRESHOLD

\* C6: for an active session whose base status is idle or waiting, the status
\* is running when the log was modified less than 3 s ago, and is the base
\* status when it was modified 3 s ago or more and no subagent log is recent.
RecencyOverride ==
    \A i \in DOMAIN calls :
        (HarnessActive /\ calls[i].base \in { "idle", "waiting" })
        => /\ AgeAt(calls[i]) < RECENT_THRESHOLD => calls[i].status = "running"
           /\ (AgeAt(calls[i]) >= RECENT_THRESHOLD /\ ~RecentSubagentAt(calls[i].at))
                 => calls[i].status = calls[i].base

\* The scenario of the specification: a tool invocation as last record gives
\* running 1 s after the write and waiting 10 s after it
RecencyWitness ==
    /\ Len(calls) = 2
    /\ HarnessActive
    /\ calls[1].base = "waiting" /\ AgeAt(calls[1]) = 1000 /\ calls[1].status = "running"
    /\ calls[2].base = "waiting" /\ AgeAt(calls[2]) = 10000 /\ calls[2].status = "waiting"

\* C7 as claimed: for an active session whose base status is waiting and whose
\* log was modified more than 3 s ago, the status is running exactly when the
\* subagents directory holds a log modified within the last 60 s; a base
\* status of idle is never upgraded by subagent activity.
SubagentOverride ==
    \A i \in DOMAIN calls :
        /\ (HarnessActive /\ calls[i].base = "waiting" /\ AgeAt(calls[i]) > RECENT_THRESHOLD)
             => (calls[i].status = "running" <=> RecentSubagentAt(calls[i].at))
        /\ (HarnessActive /\ calls[i].base = "idle" /\ AgeAt(calls[i]) >= RECENT_THRESHOLD)
             => calls[i].status = "idle"

\* C8: two classifications of the same unchanged log with the same
\* ActiveProcessSet, both less than 3 s after its modification time, give the
\* same status.
RecencyIdempotent ==
    (/\ Len(calls) = 2
     /\ AgeAt(calls[1]) >= 0 /\ AgeAt(calls[1]) < RECENT_THRESHOLD
     /\ AgeAt(calls[2]) >= 0 /\ AgeAt(calls[2]) < RECENT_THRESHOLD)
    => calls[1].status = calls[2].status

\* Two calls at different times inside the window, for an active session with
\* a tool invocation as last record and a subagent log that is recent at the
\* first call and no longer at the second
IdempotentWitness ==
    /\ Len(calls) = 2
    /\ HarnessActive
    /\ calls[1].at < calls[2].at
    /\ AgeAt(calls[2]) < RECENT_THRESHOLD
    /\ calls[1].base = "waiting"
    /\ RecentSubagentAt(calls[1].at) /\ ~RecentSubagentAt(calls[2].at)
    /\ calls[1].status = "running" /\ calls[2].status = "running"

----------------------------------------------------------------------------
(* The engine in its environment                                           *)

PA1 == << DirA, FileS1 >>

PA2 == << DirA, FileS2 >>

PB1 == << DirB, FileS1 >>

PB2 == << DirB, FileS2 >>

JsonlPaths == { p \in Paths : EndsWith(p[2], Jsonl) }

\* A session whose last turn is finished; it was started on branch dev in /w
LogDone ==
    << UserRec(Some("dev"), Some(PathW), 120), AssistantRec(<< "text" >>, 120) >>

LogAsked == << UserRec(None, None, 120) >>

InitialFiles ==
    [ p \in Paths |->
        IF p = PA1 THEN FileRec(StartTime - 1000, StartTime - 6000, LogDone)
        ELSE IF p = PA2 THEN FileRec(StartTime - STALE_THRESHOLD, StartTime - 10000, LogAsked)
        ELSE IF p = PB1 THEN FileRec(StartTime - STALE_THRESHOLD - 1000, StartTime - 900000,
                                     LogDone)
        ELSE IF p = << DirA, FileTxt >> THEN FileRec(StartTime - 1000, StartTime - 1000, << >>)
        ELSE NoFile ]

\* One name per manifest reader, in the order of MANIFEST_READERS
NoManifests == << None, None, None, None, None, None >>

InitialManifests ==
    [ p \in ProjectPaths |->
        IF p = PathA THEN [ NoManifests EXCEPT ![1] = Some(<< "a", "p", "p" >>) ]
        ELSE NoManifests ]

InitialGit == [ p \in ProjectPaths |-> IF p = PathA THEN Some("main") ELSE None ]

ProcResume(id) == [ resume |-> Some(id), cwd |-> None, start |-> None ]

ProcPlain(cwd, start) == [ resume |-> None, cwd |-> Some(cwd), start |-> Some(start) ]

ProcUniverse == { ProcResume(S1), ProcPlain(PathA, StartTime - 8000) }

InitEngine ==
    /\ lastFullScanMs = 0
    /\ cachedActiveIds = {}
    /\ dirty = TRUE
    /\ cachedSessions = << >>
    /\ projectNameCache = EmptyMap
    /\ gitBranchCache = EmptyMap
    /\ indexCache = EmptyMap
    /\ metadataCache = EmptyMap
    /\ dirWatchers = {}
    /\ openWatches = NoWatches
    /\ sessions = << >>
    /\ phase = "start"
    /\ lastTick = 0
    /\ lastScan = NoScan
    /\ calls = << >>

Init ==
    /\ now = StartTime
    /\ rootOK = TRUE
    /\ dirs = [ d \in DirNames |-> "dir" ]
    /\ fs = InitialFiles
    /\ subagents = NoSubagents
    /\ indexFile = [ d \in DirNames |-> NoIndex ]
    /\ procs \in { {}, { ProcResume(S1) } }
    /\ manifests = InitialManifests
    /\ gitHead = InitialGit
    /\ watchable = WatchPaths
    /\ envSteps = 0
    /\ InitEngine

\* The instants at which the model looks at the program, after StartTime
Instants == { StartTime + d : d \in { 200, 3000, 5000 } }

allEngine ==
    << lastFullScanMs, cachedActiveIds, dirty, cachedSessions, projectNameCache,
       gitBranchCache, indexCache, metadataCache, dirWatchers, openWatches, sessions,
       phase, lastTick, lastScan, calls >>

\* Time passes, also after the hook is unmounted
Advance(t) ==
    /\ phase /= "crashed"
    /\ t > now
    /\ now' = t
    /\ UNCHANGED << envVars, allEngine >>

\* The environment is followed while the hook can still be mounted
EnvStep ==
    /\ phase \notin { "unmounted", "crashed" }
    /\ envSteps < MaxEnvSteps
    /\ envSteps' = envSteps + 1
    /\ UNCHANGED << now, allEngine >>

AppendRecords == { AssistantRec(<< "tool_use" >>, 120), AssistantRec(<< "text" >>, 120) }

\* The logs the environment appends to, creates and deletes
AppendPaths == { PA1, PA2 }

CreatePaths == { PB2 }

DeletePaths == { PA1 }

\* The assistant appends a record to a session log
AppendLog(p, r) ==
    /\ EnvStep
    /\ fs[p].exists
    /\ fs[p].mtime < now
    /\ Len(fs[p].log) < MaxAppend
    /\ fs' = [ fs EXCEPT ![p] = [ @ EXCEPT !.log = Append(@, r), !.mtime = now ] ]
    /\ UNCHANGED << rootOK, dirs, subagents, indexFile, procs, manifests, gitHead, watchable >>

\* A new session log appears
CreateLog(p) ==
    /\ EnvStep
    /\ ~fs[p].exists
    /\ fs' = [ fs EXCEPT ![p] = FileRec(now, now, LogAsked) ]
    /\ UNCHANGED << rootOK, dirs, subagents, indexFile, procs, manifests, gitHead, watchable >>

\* A session log is deleted
DeleteLog(p) ==
    /\ EnvStep
    /\ fs[p].exists
    /\ fs' = [ fs EXCEPT ![p] = NoFile ]
    /\ UNCHANGED << rootOK, dirs, subagents, indexFile, procs, manifests, gitHead, watchable >>

\* An assistant process starts or exits
ToggleProc(pr) ==
    /\ EnvStep
    /\ procs' = IF pr \in procs THEN procs \ { pr } ELSE procs \cup { pr }
    /\ UNCHANGED << rootOK, dirs, fs, subagents, indexFile, manifests, gitHead, watchable >>

EngineStep ==
    \/ Render
    \/ Effect
    \/ TimerTick
    \/ Teardown
    \/ \E d \in WatchPaths : WatchEvent(d)

Next ==
    \/ EngineStep
    \/ \E t \in Instants : Advance(t)
    \/ \E p \in AppendPaths, r \in AppendRecords : AppendLog(p, r)
    \/ \E p \in CreatePaths : CreateLog(p)
    \/ \E p \in DeletePaths : DeleteLog(p)
    \/ \E pr \in ProcUniverse : ToggleProc(pr)
    \/ \E d \in WatchPaths : WatcherError(d)

Spec == Init /\ [][Next]_vars

----------------------------------------------------------------------------
(* Properties of the lists refresh() returns                               *)

Sorted(rows) ==
    \A i \in 1..(Len(rows) - 1) :
        /\ STATUS_PRIORITY[rows[i].status] <= STATUS_PRIORITY[rows[i + 1].status]
        /\ STATUS_PRIORITY[rows[i].status] = STATUS_PRIORITY[rows[i + 1].status]
               => rows[i].lastActive >= rows[i + 1].lastActive

\* C1: every list a scan returns, full or quick, is ordered by status priority
\* (running, waiting, idle, inactive) and, within one priority, by lastActive
\* from the most recent to the oldest; so is the list the hook holds.
ResultSorted == Sorted(lastScan.rows) /\ Sorted(sessions)

\* A quick scan returned rows of two priorities in another order than the one
\* its cache holds them in
SortedWitness ==
    /\ lastScan.op = "quick"
    /\ sessions = lastScan.rows
    /\ lastScan.rows /= RowsOf(cachedSessions)
    /\ \E i, j \in 1..Len(lastScan.rows) : lastScan.rows[i].status /= lastScan.rows[j].status

\* C2: no list a scan returns holds a session that is not in the active set and
\* whose log was modified more than 24 hours before the scan.
NoStaleInactive ==
    \A i \in 1..Len(lastScan.rows) :
        ~ /\ lastScan.rows[i].sessionId \notin cachedActiveIds
          /\ lastScan.at - lastScan.rows[i].lastActive > STALE_THRESHOLD

\* The step is a call of quickScan from the interval callback
QuickScanStep ==
    /\ phase = "mounted"
    /\ lastTick' /= lastTick
    /\ dirty
    /\ now - lastFullScanMs < FULL_SCAN_INTERVAL

\* C9: a quick scan that finds no cached file with a modification time other
\* than the one the last scan saw returns the list the last scan returned, in
\* the same order, and leaves the cached entries as they are.
QuickScanEquivalence ==
    [][ QuickScanStep /\ (\A i \in 1..Len(cachedSessions) : Unmodified(cachedSessions[i]))
          => /\ lastScan'.rows = lastScan.rows
             /\ sessions' = lastScan.rows
             /\ cachedSessions' = cachedSessions ]_vars

\* A quick scan has returned, unchanged, a row computed as running by recency
\* although its log has not been modified for 3 seconds or more
QuickScanWitness ==
    /\ lastScan.op = "quick"
    /\ lastScan.quiet
    /\ \E i \in 1..Len(cachedSessions) :
           /\ cachedSessions[i].row.status = "running"
           /\ lastScan.at - cachedSessions[i].mtimeMs >= RECENT_THRESHOLD
           /\ resolveActiveStatus(cachedSessions[i].filePath) = "idle"

----------------------------------------------------------------------------
(* The scanner over project directories that have a sessions index         *)

MaxIndexWrites == 1

IndexEntry(id, branch, path, count) ==
    [ sessionId |-> id, gitBranch |-> branch, projectPath |-> path, messageCount |-> count ]

IndexFile(mtime, entries) ==
    [ exists |-> TRUE, mtime |-> mtime, parses |-> TRUE, entries |-> entries ]

\* A sessions-index.json that JSON.parse rejects
BrokenIndex(mtime) == [ exists |-> TRUE, mtime |-> mtime, parses |-> FALSE, entries |-> << >> ]

IndexBranches == { None, Some(""), Some("HEAD"), Some("feat") }

EntriesS1 ==
    { << IndexEntry(S1, b, p, c) >> :
        b \in IndexBranches, p \in { None, Some(PathA) }, c \in { None, Some(7) } }

EntriesBoth ==
    << IndexEntry(S2, Some("HEAD"), Some(PathB), Some(3)),
       IndexEntry(S1, Some("feat"), Some(PathA), Some(7)) >>

IndexContents == EntriesS1 \cup { << >>, EntriesBoth }

\* What the environment writes over an index
IndexRewrites == { EntriesBoth, << IndexEntry(S1, Some(""), None, None) >> }

InitIndex ==
    /\ now = StartTime
    /\ rootOK = TRUE
    /\ dirs = [ d \in DirNames |-> "dir" ]
    /\ fs = InitialFiles
    /\ subagents = NoSubagents
    /\ \E a \in { NoIndex, BrokenIndex(StartTime - 1000) }
                \cup { IndexFile(StartTime - 1000, e) : e \in IndexContents } :
           indexFile = [ d \in DirNames |-> IF d = DirA THEN a ELSE NoIndex ]
    /\ procs = {}
    /\ manifests = InitialManifests
    /\ \E g \in { None, Some("main") } :
           gitHead = [ p \in ProjectPaths |->
                         IF p = PathA THEN g ELSE IF p = PathB THEN Some("work") ELSE None ]
    /\ watchable = WatchPaths
    /\ envSteps = 0
    /\ InitEngine

\* The assistant rewrites the sessions index of a project directory
WriteIndex(d, entries) ==
    /\ envSteps < MaxIndexWrites
    /\ envSteps' = envSteps + 1
    /\ indexFile[d].exists => indexFile[d].mtime < now
    /\ indexFile' = [ indexFile EXCEPT ![d] = IndexFile(now, entries) ]
    /\ UNCHANGED << now, allEngine, rootOK, dirs, fs, subagents, procs, manifests, gitHead,
                    watchable >>

NextIndex ==
    \/ EngineStep
    \/ \E t \in Instants : Advance(t)
    \/ \E e \in IndexRewrites : WriteIndex(DirA, e)

SpecIndex == InitIndex /\ [][NextIndex]_vars

\* The entry the index file of dir holds for sessionId, if the file parses
FileEntry(dir, sessionId) ==
    LET file == indexFile[dir]
        hits == IF file.exists /\ file.parses
                THEN { i \in DOMAIN file.entries : file.entries[i].sessionId = sessionId }
                ELSE {}
    IN  IF hits = {} THEN None
        ELSE Some(file.entries[CHOOSE i \in hits : \A j \in hits : j <= i])

\* The project path of a row that has the index entry e
EntryPath(dir, e) ==
    IF IsSome(e.projectPath) THEN e.projectPath[1]
    ELSE IF IsSome(indexFile[dir].entries[1].projectPath)
    THEN indexFile[dir].entries[1].projectPath[1]
    ELSE deriveProjectPath(dir)

\* What git reports at path now, or fallback when it reports nothing
LiveBranch(path, fallback) ==
    IF path \in DOMAIN gitHead /\ IsSome(gitHead[path]) THEN gitHead[path][1] ELSE fallback

\* The step is a full scan
FullScanStep == lastFullScanMs' /= lastFullScanMs

\* The rows of the scan of this step that have an entry in the index of their
\* directory all satisfy R(row, entry, dir)
IndexedRows(R(_, _, _)) ==
    \A i \in 1..Len(cachedSessions') :
        LET c == cachedSessions'[i]
            e == FileEntry(c.filePath[1], c.sessionId)
        IN  IsSome(e) => R(c.row, e[1], c.filePath[1])

LogMeta(filePath) == parseJsonlMetadata(EmptyMap, filePath, fs[filePath].mtime).meta

----------------------------------------------------------------------------
(* Properties of the refresh schedule                                      *)

\* The step calls fetchSessions: the initializer of useState, or the interval
\* callback when a full scan is due or the dirty flag is set
ScanStep ==
    \/ phase = "start" /\ phase' = "rendered"
    \/ /\ phase = "mounted"
       /\ lastTick' /= lastTick
       /\ dirty \/ now - lastFullScanMs >= FULL_SCAN_INTERVAL

\* Every cached entry is built from the file as it is now
FreshEntries(cached) ==
    \A i \in 1..Len(cached) :
        /\ fs[cached[i].filePath].exists
        /\ cached[i].mtimeMs = fs[cached[i].filePath].mtime
        /\ cached[i].row.lastActive = fs[cached[i].filePath].mtime

\* C11: a refresh runs the full scan (the active set is computed again, every
\* cached entry is built again, the time of the last full scan becomes now)
\* exactly when 5 seconds or more have passed since the last full scan, and
\* the quick scan otherwise; the first refresh is a full scan; two full scans
\* are at least 5 seconds apart.
FullScanWhenDue ==
    [][ /\ ScanStep =>
             IF now - lastFullScanMs >= FULL_SCAN_INTERVAL
             THEN /\ lastScan'.op = "full"
                  /\ lastFullScanMs' = now
                  /\ cachedActiveIds' = getActiveSessionIds
                  /\ FreshEntries(cachedSessions')
             ELSE /\ lastScan'.op = "quick"
                  /\ lastFullScanMs' = lastFullScanMs
                  /\ cachedActiveIds' = cachedActiveIds
        /\ phase = "start" /\ phase' = "rendered" => lastScan'.op = "full"
        /\ FullScanStep => now - lastFullScanMs >= FULL_SCAN_INTERVAL ]_vars

\* The interval callback has run the second full scan, exactly 5 seconds after
\* the first
SecondFullScanWitness ==
    /\ lastScan.op = "full"
    /\ lastScan.at = StartTime + FULL_SCAN_INTERVAL
    /\ lastFullScanMs = lastScan.at
    /\ lastTick = lastScan.at
    /\ Len(cachedSessions) > 0

\* The step is a run of the interval callback
TickStep == phase = "mounted" /\ lastTick' /= lastTick

\* C12: a tick at which a full scan is due or the dirty flag is set runs one
\* refresh, hands its list to the renderer and leaves the flag false; any
\* other tick changes nothing of the engine and hands nothing over.  A change
\* notification sets the flag, and a set flag stays set until a refresh.
TickRefreshesWhenNeeded ==
    [][ /\ TickStep =>
             IF dirty \/ now - lastFullScanMs >= FULL_SCAN_INTERVAL
             THEN /\ lastScan'.at = now
                  /\ lastScan'.op \in { "full", "quick" }
                  /\ sessions' = lastScan'.rows
                  /\ dirty' = FALSE
             ELSE UNCHANGED << engineVars, sessions, dirty >>
        /\ dirty /\ ~dirty' => ScanStep
        /\ ~dirty /\ dirty' => phase' = phase /\ UNCHANGED << engineVars, sessions >> ]_vars

\* A notification has made a tick run a quick scan, and a later tick found
\* nothing to do
IdleTickWitness ==
    /\ phase = "mounted"
    /\ lastScan.op = "quick"
    /\ lastTick > lastScan.at
    /\ ~dirty

\* Entry after is entry before with, at most, another modification time,
\* last-activity and status
SameButActivity(before, after) ==
    /\ after.filePath = before.filePath
    /\ after.sessionId = before.sessionId
    /\ after.row.sessionId = before.row.sessionId
    /\ after.row.projectPath = before.row.projectPath
    /\ after.row.projectName = before.row.projectName
    /\ after.row.gitBranch = before.row.gitBranch
    /\ after.row.messageCount = before.row.messageCount

\* C13: a quick scan keeps every cached entry, in place, with its session id,
\* project path, project name, branch and message count; an entry whose file
\* has another modification time gets that time as stored time and
\* last-activity and the status determineStatus gives with the active set of
\* the last full scan; the active set, the time of the last full scan and the
\* memo caches stay as they are.
QuickScanFrame ==
    [][ QuickScanStep =>
          /\ Len(cachedSessions') = Len(cachedSessions)
          /\ \A i \in 1..Len(cachedSessions) :
               LET before == cachedSessions[i]
                   after == cachedSessions'[i]
                   st == fs[before.filePath]
               IN  /\ SameButActivity(before, after)
                   /\ IF st.exists /\ st.statOK /\ st.mtime /= before.mtimeMs
                      THEN /\ after.mtimeMs = st.mtime
                           /\ after.row.lastActive = st.mtime
                           /\ after.row.status =
                                  determineStatus(before.sessionId, cachedActiveIds,
                                                  before.filePath, st.mtime)
                      ELSE after = before
          /\ UNCHANGED << cachedActiveIds, lastFullScanMs, projectNameCache, gitBranchCache,
                          indexCache, metadataCache >> ]_vars

\* A quick scan has classified a modified log as inactive with the active set
\* of the last full scan, although the process table now has its session
QuickScanFrameWitness ==
    /\ lastScan.op = "quick"
    /\ ~lastScan.quiet
    /\ \E i \in 1..Len(cachedSessions) :
           /\ cachedSessions[i].mtimeMs > lastFullScanMs
           /\ cachedSessions[i].row.lastActive = cachedSessions[i].mtimeMs
           /\ cachedSessions[i].row.status = "inactive"
           /\ cachedSessions[i].sessionId \in getActiveSessionIds \ cachedActiveIds

-----------------------------------------------------------------------------
(* The engine over a faulty store: an unreadable root, a project directory *)
(* that cannot be listed, a log that cannot be stat'ed or holds a          *)
(* malformed record, an index that is absent, malformed or badly typed     *)

\* { "entries": [ { "sessionId": "s1" } ] }: every other field is missing
EntryMissingFields == << IndexEntry(S1, None, None, None) >>

\* { "entries": [ { "sessionId": "s1", "projectPath": 42 } ] }
EntryWrongType == << IndexEntry(S1, Some("feat"), Some(NotAString), Some(7)) >>

FaultyIndexes ==
    { NoIndex, BrokenIndex(StartTime - 1000) }
    \cup { IndexFile(StartTime - 1000, e) : e \in { << >>, EntryMissingFields, EntryWrongType } }

\* The log of s2: as in InitialFiles, listed but gone when stat'ed, or with a
\* line that is not JSON before its last record
FaultyLogs ==
    { InitialFiles[PA2],
      [ InitialFiles[PA2] EXCEPT !.statOK = FALSE ],
      [ InitialFiles[PA2] EXCEPT
          !.log = @ \o << BadLine(40), AssistantRec(<< "text" >>, 120) >> ] }

InitFaults ==
    /\ now = StartTime
    /\ rootOK \in BOOLEAN
    /\ \E k \in { "dir", "file" } : dirs = [ d \in DirNames |-> IF d = DirB THEN k ELSE "dir" ]
    /\ \E f \in FaultyLogs : fs = [ InitialFiles EXCEPT ![PA2] = f ]
    /\ subagents = NoSubagents
    /\ \E a \in FaultyIndexes :
           indexFile = [ d \in DirNames |-> IF d = DirA THEN a ELSE NoIndex ]
    /\ procs = {}
    /\ manifests = InitialManifests
    /\ gitHead = InitialGit
    /\ watchable = WatchPaths
    /\ envSteps = 0
    /\ InitEngine

\* The root directory becomes unreadable, or readable again
SetRoot(ok) ==
    /\ EnvStep
    /\ rootOK /= ok
    /\ rootOK' = ok
    /\ UNCHANGED << dirs, fs, subagents, indexFile, procs, manifests, gitHead, watchable >>

NextFaults ==
    \/ EngineStep
    \/ \E t \in Instants : Advance(t)
    \/ \E ok \in BOOLEAN : SetRoot(ok)
    \/ \E pr \in { ProcResume(S1) } : ToggleProc(pr)
    \/ \E r \in { AssistantRec(<< "text" >>, 120) } : AppendLog(PA1, r)

SpecFaults == InitFaults /\ [][NextFaults]_vars

\* A reader can run: the quick scan of a later refresh, the renderer
Observable == phase \in { "rendered", "mounted" }

\* C14: whenever a reader (the quick scan, the renderer) can run, the cached
\* active set and the cached entries are the ones of the same full scan: an
\* entry is inactive exactly when its session is not in the cached active
\* set, and the renderer holds the sorted rows of the cached entries; this
\* includes a full scan that stops at an unreadable root.
ConsistentSnapshot ==
    Observable =>
        /\ \A i \in 1..Len(cachedSessions) :
               cachedSessions[i].row.status = "inactive"
                   <=> cachedSessions[i].sessionId \notin cachedActiveIds
        /\ sessions = sortRows(RowsOf(cachedSessions))
        /\ lastScan.op \in { "full", "quick" }
        /\ lastFullScanMs > 0

\* The interval callback has run a second full scan after an assistant
\* process started: the active set and the entries are both the new ones
SnapshotWitness ==
    /\ phase = "mounted"
    /\ lastScan.op = "full"
    /\ lastTick = lastScan.at
    /\ lastScan.at > StartTime
    /\ cachedActiveIds = { S1 }
    /\ \E i \in 1..Len(cachedSessions) :
           /\ cachedSessions[i].sessionId = S1
           /\ cachedSessions[i].row.status /= "inactive"

\* C16: a full scan that finds the root unreadable returns the empty list,
\* raises nothing and leaves no cached entry; while no entry is cached, every
\* step but a full scan leaves it so, and a refresh among them returns the
\* empty list.
RootFailureYieldsEmpty ==
    [][ /\ FullScanStep /\ ~rootOK =>
             /\ lastScan'.op = "full"
             /\ lastScan'.rows = << >>
             /\ cachedSessions' = << >>
             /\ sessions' = << >>
             /\ phase' /= "crashed"
        /\ cachedSessions = << >> /\ ~FullScanStep =>
             /\ cachedSessions' = << >>
             /\ lastScan' /= lastScan =>
                    /\ lastScan'.op = "quick"
                    /\ lastScan'.rows = << >>
                    /\ sessions' = << >> ]_vars

\* A quick scan has returned the empty list over an unreadable root although
\* a fresh log lies under it
RootFailureWitness ==
    /\ ~rootOK
    /\ lastScan.op = "quick"
    /\ lastScan.at > lastFullScanMs
    /\ lastScan.rows = << >>
    /\ sessions = << >>
    /\ fs[PA1].exists
    /\ now - fs[PA1].mtime < STALE_THRESHOLD

\* C17: no scan raises to its caller, whatever the store holds.
ScanNeverRaises == lastScan.op /= "raised" /\ phase /= "crashed"

\* C15: once the hook is unmounted, every watcher an earlier full scan has
\* registered is closed and the registry is empty, and no step sets the dirty
\* flag, runs a scan or a tick, or registers a watcher.
TeardownReleasesWatches ==
    [][ /\ phase' = "unmounted" =>
             /\ dirWatchers' = {}
             /\ \A d \in WatchPaths : openWatches'[d] = 0
        /\ phase = "unmounted" =>
             /\ phase' = "unmounted"
             /\ UNCHANGED << dirty, engineVars, sessions, lastTick >> ]_vars

\* Time has passed since a teardown that closed the watchers of the root and
\* of both project directories; a full scan would be due
TeardownWitness ==
    /\ phase = "unmounted"
    /\ now > lastTick
    /\ now - lastFullScanMs >= FULL_SCAN_INTERVAL
    /\ Len(cachedSessions) > 0
    /\ dirWatchers = {}
    /\ \A d \in WatchPaths : openWatches[d] = 0

-----------------------------------------------------------------------------
(* The process correlator on its own: one assistant process without a      *)
(* resume flag, started in /a, and the logs of the project directory -a    *)

ProcStart == StartTime - 1000

\* Creation times of a log, relative to the start of the process
BirthOffsets == { -5001, -5000, -2000, 0, 2000, 300000, 300001 }

\* A log of -a: absent, created at one of the offsets, or listed but gone when
\* stat'ed
BirthFiles ==
    { NoFile, [ FileRec(StartTime, ProcStart, LogAsked) EXCEPT !.statOK = FALSE ] }
    \cup { FileRec(StartTime, ProcStart + d, LogAsked) : d \in BirthOffsets }

InitCorrelate ==
    /\ now = StartTime
    /\ calls = << >>
    /\ rootOK = TRUE
    /\ \E k \in { "dir", "absent" } : dirs = [ d \in DirNames |-> IF d = DirA THEN k ELSE "dir" ]
    /\ \E f1 \in BirthFiles, f2 \in BirthFiles :
           fs = [ p \in Paths |-> IF p = PA1 THEN f1 ELSE IF p = PA2 THEN f2 ELSE NoFile ]
    /\ subagents = NoSubagents
    /\ indexFile = [ d \in DirNames |-> NoIndex ]
    /\ procs = { ProcPlain(PathA, ProcStart) }
    /\ manifests = InitialManifests
    /\ gitHead = InitialGit
    /\ watchable = WatchPaths
    /\ envSteps = 0
    /\ InitEngine

\* One call getActiveSessionIds()
Correlate ==
    /\ calls = << >>
    /\ calls' = << [ at |-> now, active |-> getActiveSessionIds ] >>
    /\ UNCHANGED << now, envVars, lastFullScanMs, cachedActiveIds, dirty, cachedSessions,
                    projectNameCache, gitBranchCache, indexCache, metadataCache,
                    dirWatchers, openWatches, sessions, phase, lastTick, lastScan >>

NextCorrelate == Correlate

SpecCorrelate == InitCorrelate /\ [][NextCorrelate]_vars

\* The logs of -a that exist, with the session id each is named after
LogsOfA == { p \in { PA1, PA2 } : fs[p].exists }

IdOfLog(p) == IF p = PA1 THEN S1 ELSE S2

\* The creation time of log p lies between 5 s before and 300 s after the
\* start of the process
BornInWindow(p) ==
    /\ fs[p].statOK
    /\ ProcStart - 5000 <= fs[p].birth
    /\ fs[p].birth <= ProcStart + 300000

\* C18: the process without a resume flag contributes at most one session id,
\* and only that of a log of its project directory created no earlier than
\* 5 s before and no later than 300 s after its start; when no log lies in
\* that window it contributes none.
CorrelationWindow ==
    Len(calls) = 1 =>
        /\ \A id \in calls[1].active :
               \E p \in LogsOfA : IdOfLog(p) = id /\ BornInWindow(p) /\ dirs[DirA] = "dir"
        /\ Cardinality(calls[1].active) <= 1
        /\ (\A p \in LogsOfA : ~BornInWindow(p)) => calls[1].active = {}

\* The log created exactly 300 s after the start is correlated, next to one
\* created a millisecond later
WindowWitness ==
    /\ Len(calls) = 1
    /\ calls[1].active = { S1 }
    /\ fs[PA1].birth = ProcStart + 300000
    /\ fs[PA2].exists /\ fs[PA2].statOK /\ fs[PA2].birth = ProcStart + 300001

AbsDiff(a, b) == IF a >= b THEN a - b ELSE b - a

\* C19: among the logs created in the window, the one correlated has the
\* least absolute difference between its creation time and the start of the
\* process.
ClosestIsCorrelated ==
    Len(calls) = 1 =>
        \A p \in LogsOfA :
            IdOfLog(p) \in calls[1].active =>
                \A q \in LogsOfA :
                    BornInWindow(q) =>
                        AbsDiff(fs[p].birth, ProcStart) <= AbsDiff(fs[q].birth, ProcStart)

-----------------------------------------------------------------------------
(* The two directions of the directory-name encoding: the correlator maps  *)
(* a working directory to a directory name, the scanner maps a directory   *)
(* name back to a project path                                             *)

PathChars == { "/", "a", "-" }

RECURSIVE Strings(_)
Strings(n) ==
    IF n = 0 THEN { << >> }
    ELSE With(Strings(n - 1),
              LAMBDA shorter :
                  shorter \cup { Append(s, c) : s \in { t \in shorter : Len(t) = n - 1 },
                                                c \in PathChars })

\* The absolute paths of at most MaxPathLen characters
AbsolutePaths == { << "/" >> \o s : s \in Strings(MaxPathLen - 1) }

InitPath ==
    /\ now = StartTime
    /\ \E p \in AbsolutePaths : calls = << [ op |-> "path", value |-> p ] >>
    /\ IdleEngine
    /\ cachedActiveIds = {}
    /\ fs = [ p \in Paths |-> NoFile ]
    /\ subagents = NoSubagents

\* The correlator encodes the working directory
Encode ==
    /\ Len(calls) = 1
    /\ calls' = Append(calls, [ op |-> "encode", value |-> CwdDirName(calls[1].value) ])
    /\ UNCHANGED << now, classifierFrame >>

\* The scanner decodes the directory name
Decode ==
    /\ Len(calls) = 2
    /\ calls' = Append(calls, [ op |-> "decode", value |-> deriveProjectPath(calls[2].value) ])
    /\ UNCHANGED << now, classifierFrame >>

NextPath ==
    \/ Encode
    \/ Decode

SpecPath == InitPath /\ [][NextPath]_vars

\* C20: decoding the directory name the correlator makes of an absolute
\* project path gives that path back.
EncodingReversible == Len(calls) = 3 => calls[3].value = calls[1].value

-----------------------------------------------------------------------------
(* Properties of the row a full scan builds                                *)

\* Every row of the scan of this step satisfies R(row, entry, filePath),
\* entry being the index entry of its session, if any
ScannedRows(R(_, _, _)) ==
    \A i \in 1..Len(cachedSessions') :
        LET c == cachedSessions'[i]
        IN  R(c.row, FileEntry(c.filePath[1], c.sessionId), c.filePath)

\* git reports a branch at path
LiveLookupSucceeds(path) == path \in DOMAIN gitHead /\ IsSome(gitHead[path])

\* The branch of the index entry and, when it has none, the branch recovered
\* from the log
BranchOfIndexThenLog(e, filePath) ==
    Coalesce(IF IsSome(e) THEN e[1].gitBranch ELSE None, LogMeta(filePath).gitBranch)

\* C21: the branch of a row is the branch of the index entry if present,
\* otherwise the branch recovered from the log; when that value is absent
\* (or empty) or HEAD, and only then, the live lookup at the project path is
\* made and its result, when there is one, is the branch of the row.
BranchResolutionOrder ==
    [][ FullScanStep /\ lastScan'.op = "full" =>
          ScannedRows(LAMBDA row, e, filePath :
              LET data == BranchOfIndexThenLog(e, filePath)
              IN  IF Truthy(data) /\ data /= Some("HEAD")
                  THEN row.gitBranch = data[1]
                  ELSE LiveLookupSucceeds(row.projectPath) =>
                           row.gitBranch = gitHead[row.projectPath][1]) ]_vars

\* C22: when the branch from index and log is absent or HEAD and the live
\* lookup at the project path fails, the branch of the row is N/A.
UnresolvedBranchIsNA ==
    [][ FullScanStep /\ lastScan'.op = "full" =>
          ScannedRows(LAMBDA row, e, filePath :
              LET data == BranchFromData(e, IF IsSome(e) THEN None
                                            ELSE Some(LogMeta(filePath)))
              IN  (data = None \/ data = Some("HEAD")) /\ ~LiveLookupSucceeds(row.projectPath)
                      => row.gitBranch = "N/A") ]_vars

\* The number of records of a log whose type is user or assistant
CountTurns(log) ==
    Cardinality({ i \in DOMAIN log : log[i].ok /\ log[i].type \in { "user", "assistant" } })

\* C23: the message count of a row without an index entry is the number of
\* user and assistant records of its log, a malformed line being skipped;
\* with an index entry it is the count of the entry; it is never negative.
MessageCountIsTurns ==
    [][ FullScanStep /\ lastScan'.op = "full" =>
          ScannedRows(LAMBDA row, e, filePath :
              /\ row.messageCount >= 0
              /\ IF IsSome(e)
                 THEN IsSome(e[1].messageCount) => row.messageCount = e[1].messageCount[1]
                 ELSE fs[filePath].readable =>
                          row.messageCount = CountTurns(fs[filePath].log)) ]_vars

-----------------------------------------------------------------------------
(* The engine while the manifests of the projects change                   *)

\* What package.json yields after it is rewritten (a new name) or deleted
ManifestNames == { None, Some(<< "n", "e", "w" >>) }

\* The package.json of the project at path p changes, appears or disappears
WriteManifest(p, name) ==
    /\ EnvStep
    /\ manifests[p][1] /= name
    /\ manifests' = [ manifests EXCEPT ![p] = [ @ EXCEPT ![1] = name ] ]
    /\ UNCHANGED << rootOK, dirs, fs, subagents, indexFile, procs, gitHead, watchable >>

NextManifests ==
    \/ EngineStep
    \/ \E t \in Instants : Advance(t)
    \/ \E p \in { PathA, PathW }, name \in ManifestNames : WriteManifest(p, name)

SpecManifests == Init /\ [][NextManifests]_vars

\* The project name the manifests at path yield now
CurrentProjectName(path) ==
    LET name == FirstName(ManifestsAt(path), 1)
    IN  IF IsSome(name) THEN name[1] ELSE LastSegment(path)

\* C24: the project name of every row of a full scan is the one derived from
\* the manifest as it is at that scan, also after the manifest has changed,
\* appeared or disappeared since the name was memoized.
ProjectNameFollowsManifest ==
    [][ FullScanStep /\ lastScan'.op = "full" =>
          ScannedRows(LAMBDA row, e, filePath :
              row.projectName = CurrentProjectName(row.projectPath)) ]_vars

-----------------------------------------------------------------------------
(* Properties of the cached entries                                        *)

\* The step runs a scan to its end
CompletedScanStep == lastScan' /= lastScan /\ lastScan'.op \in { "full", "quick" }

\* stat succeeds on the file at path
StatSucceeds(path) == fs[path].exists /\ fs[path].statOK

\* C25: after a scan every cached entry whose file the scan could stat stores
\* the modification time that stat gave, and its row has it as last
\* activity; an entry whose file a quick scan could not stat keeps both; no
\* other step touches the entries, so stored time and last activity are
\* always equal.
StoredTimeIsObservedTime ==
    [][ /\ CompletedScanStep =>
             \A i \in 1..Len(cachedSessions') :
                 LET after == cachedSessions'[i]
                 IN  /\ after.row.lastActive = after.mtimeMs
                     /\ IF StatSucceeds(after.filePath)
                        THEN after.mtimeMs = fs[after.filePath].mtime
                        ELSE /\ lastScan'.op = "quick"
                             /\ after.mtimeMs = cachedSessions[i].mtimeMs
                             /\ after.row.lastActive = cachedSessions[i].row.lastActive
        /\ ~CompletedScanStep => cachedSessions' = cachedSessions ]_vars

\* A quick scan has stored the new modification time of a log that grew,
\* and kept the entry of a log that was deleted
StoredTimeWitness ==
    /\ lastScan.op = "quick"
    /\ \E i, j \in 1..Len(cachedSessions) :
           /\ cachedSessions[i].mtimeMs > lastFullScanMs
           /\ StatSucceeds(cachedSessions[i].filePath)
           /\ cachedSessions[i].mtimeMs = fs[cachedSessions[i].filePath].mtime
           /\ cachedSessions[i].row.lastActive = cachedSessions[i].mtimeMs
           /\ ~fs[cachedSessions[j].filePath].exists
           /\ cachedSessions[j].row.lastActive = cachedSessions[j].mtimeMs

\* C26: no two rows of a list a refresh returns have the same session id,
\* and no two cached entries have the same file path.
UniqueSessionIds ==
    /\ \A i, j \in 1..Len(lastScan.rows) :
           i /= j => lastScan.rows[i].sessionId /= lastScan.rows[j].sessionId
    /\ \A i, j \in 1..Len(cachedSessions) :
           i /= j => cachedSessions[i].filePath /= cachedSessions[j].filePath

\* C27: after every step that leaves entries cached, an entry is inactive
\* exactly when its session is not in the active set the last full scan
\* captured; a quick scan turns no inactive entry into a running, waiting or
\* idle one, nor the reverse.
InactivityFollowsCapturedSet ==
    [][ /\ phase' /= "crashed" =>
             \A i \in 1..Len(cachedSessions') :
                 cachedSessions'[i].row.status = "inactive"
                     <=> cachedSessions'[i].sessionId \notin cachedActiveIds'
        /\ QuickScanStep =>
             \A i \in 1..Len(cachedSessions) :
                 cachedSessions'[i].row.status = "inactive"
                     <=> cachedSessions[i].row.status = "inactive" ]_vars

\* A quick scan has classified the grown log of a session as not inactive
\* with the captured active set, although its process has exited since
CapturedSetWitness ==
    /\ lastScan.op = "quick"
    /\ ~lastScan.quiet
    /\ \E i \in 1..Len(cachedSessions) :
           /\ cachedSessions[i].mtimeMs > lastFullScanMs
           /\ cachedSessions[i].row.status /= "inactive"
           /\ cachedSessions[i].sessionId \in cachedActiveIds \ getActiveSessionIds

\* The session ids of a list of rows, each with the number of its rows
IdsOf(rows) ==
    [ id \in { rows[i].sessionId : i \in 1..Len(rows) } |->
        Cardinality({ i \in 1..Len(rows) : rows[i].sessionId = id }) ]

\* C28: the list a quick scan returns has the session ids of the list of the
\* scan before it, and the cache keeps its file paths in place, whatever was
\* created, deleted or made unreadable since; the entry of a file that is
\* gone stays as it was.
QuickScanKeepsEntries ==
    [][ QuickScanStep =>
          /\ IdsOf(lastScan'.rows) = IdsOf(lastScan.rows)
          /\ Len(lastScan'.rows) = Len(cachedSessions)
          /\ [ i \in 1..Len(cachedSessions') |-> cachedSessions'[i].filePath ]
                 = [ i \in 1..Len(cachedSessions) |-> cachedSessions[i].filePath ]
          /\ \A i \in 1..Len(cachedSessions) :
                 ~StatSucceeds(cachedSessions[i].filePath) =>
                     cachedSessions'[i] = cachedSessions[i] ]_vars

\* A quick scan has returned the row of a log that was deleted and no row
\* for a log that was created since the full scan
KeptEntriesWitness ==
    /\ lastScan.op = "quick"
    /\ \E i \in 1..Len(cachedSessions) : ~fs[cachedSessions[i].filePath].exists
    /\ \E i \in 1..Len(lastScan.rows) : lastScan.rows[i].sessionId = S1
    /\ ~fs[PA1].exists
    /\ fs[PB2].exists
    /\ \A i \in 1..Len(cachedSessions) : cachedSessions[i].filePath /= PB2

-----------------------------------------------------------------------------
(* Properties of the watcher registry                                      *)

====
